---- MODULE Spec2Model ----
(***************************************************************************)
(* Food-Planner (meal_planner_app.py): the shopping-list aggregator, the   *)
(* meal pool selector, the Gemini request builder, the generation call and *)
(* the Streamlit session that main() drives, one script run per action.    *)
(* Python strings are sequences of one-character strings, Python dicts     *)
(* with string keys are records (DOMAIN is the key set), and dicts whose   *)
(* iteration order matters are sequences of <<key, value>> pairs.          *)
(***************************************************************************)
EXTENDS Integers, Sequences, FiniteSets, TLC

VARIABLES
    pc,              \* which call is in progress: "input" before, "done" after
    meal_plan,       \* st.session_state.meal_plan
    pantry_items,    \* st.session_state.pantry_items
    shopping_list,   \* st.session_state.shopping_list
    generated_meals, \* st.session_state.generated_meals
    sel,             \* one call of get_random_meal: its arguments and outcome
    req,             \* one call of generate_meals_with_gemini: inputs and outcome
    selected_days,   \* main: the days whose radio says "Plan", in week order
    dinner_settings, \* st.session_state.dinner_settings
    requested,       \* the dinner sections asked for by the call that made the pools
    last             \* the last script run: its button, day and result

vars ==
    <<pc, meal_plan, pantry_items, shopping_list, generated_meals, sel, req,
      selected_days, dinner_settings, requested, last>>

\* ------------------------------------------------------------------ bounds

MaxQty == 2
MaxIngredients == 2
MaxPool == 2
MaxExisting == 1
MaxLunches == 1

\* ------------------------------------------------------------ Python text

Range(s) == {s[i] : i \in DOMAIN s}

\* the printable ASCII characters from code point 32 on (the double quote, the
\* backslash and the backtick stand under a name: no input of the model holds them)
Ascii ==
    <<" ", "!", "DQUOTE", "#", "$", "%", "&", "'", "(", ")", "*", "+", ",", "-", ".", "/", "0", "1",
    "2", "3", "4", "5", "6", "7", "8", "9", ":", ";", "<", "=", ">", "?", "@", "A", "B", "C",
    "D", "E", "F", "G", "H", "I", "J", "K", "L", "M", "N", "O", "P", "Q", "R", "S", "T", "U",
    "V", "W", "X", "Y", "Z", "[", "BACKSLASH", "]", "^", "_", "BACKTICK", "a", "b", "c", "d", "e", "f", "g",
    "h", "i", "j", "k", "l", "m", "n", "o", "p", "q", "r", "s", "t", "u", "v", "w", "x", "y",
    "z", "{", "|", "}", "~">>

\* ord(c): the code point Python compares characters by
ord ==
    [c \in Range(Ascii) \cup {"\n"} |->
        IF c = "\n" THEN 10 ELSE 31 + (CHOOSE i \in DOMAIN Ascii : Ascii[i] = c)]

chr(n) == Ascii[n - 31]

isupper(c) == ord[c] \in 65..90
islower(c) == ord[c] \in 97..122
isalpha(c) == isupper(c) \/ islower(c)
isspace(c) == c \in {" ", "\n"}

lower_char(c) == IF isupper(c) THEN chr(ord[c] + 32) ELSE c
upper_char(c) == IF islower(c) THEN chr(ord[c] - 32) ELSE c

\* str.lower()
lower(s) == [i \in 1..Len(s) |-> lower_char(s[i])]

RECURSIVE lstrip(_)
lstrip(s) == IF s # <<>> /\ isspace(Head(s)) THEN lstrip(Tail(s)) ELSE s

RECURSIVE rstrip(_)
rstrip(s) ==
    IF s # <<>> /\ isspace(s[Len(s)]) THEN rstrip(SubSeq(s, 1, Len(s) - 1)) ELSE s

\* str.strip()
strip(s) == rstrip(lstrip(s))

\* str.title(): a letter that follows a non-letter is upper-cased, any other
\* letter lower-cased
title(s) ==
    [i \in 1..Len(s) |->
        IF i = 1 \/ ~isalpha(s[i - 1]) THEN upper_char(s[i]) ELSE lower_char(s[i])]

\* str(n) of a non-negative integer
RECURSIVE str(_)
str(n) == IF n < 10 THEN <<chr(48 + n)>> ELSE str(n \div 10) \o <<chr(48 + (n % 10))>>

\* Python's < on strings: lexicographic by code point
RECURSIVE str_lt(_, _)
str_lt(a, b) ==
    IF b = <<>> THEN FALSE
    ELSE IF a = <<>> THEN TRUE
    ELSE IF Head(a) # Head(b) THEN ord[Head(a)] < ord[Head(b)]
    ELSE str_lt(Tail(a), Tail(b))

\* ------------------------------------------------- generate_shopping_list

None == [none |-> TRUE]

SENTINEL ==
    <<"Y", "o", "u", " ", "h", "a", "v", "e", " ", "e", "v", "e", "r", "y", "t", "h", "i", "n",
    "g", " ", "y", "o", "u", " ", "n", "e", "e", "d", "!">>

\* mutant: the pantry entries are trimmed but not lower-cased
pantry_set_case_sensitive(items) == {strip(items[i]) : i \in DOMAIN items}

\* pantry_set = {item.strip().lower() for item in pantry_items}
pantry_set_of(items) == {lower(strip(items[i])) : i \in DOMAIN items}

\* item_name = ingredient['item'].strip().lower()
item_name_of(ingredient) == lower(strip(ingredient.item))

\* required_items.get(key, 0): required_items is a dict, here the sequence of its
\* <<key, quantity>> items in insertion order
dict_get(d, key, default) ==
    IF \E i \in DOMAIN d : d[i][1] = key
    THEN d[CHOOSE i \in DOMAIN d : d[i][1] = key][2]
    ELSE default

\* d[key] = value: an existing key keeps its place, a new key goes last
dict_set(d, key, value) ==
    IF \E i \in DOMAIN d : d[i][1] = key
    THEN [i \in DOMAIN d |-> IF d[i][1] = key THEN <<key, value>> ELSE d[i]]
    ELSE Append(d, <<key, value>>)

\* one pass of either loop body over an ingredient
add_ingredient(required_items, ingredient, pantry_set) ==
    LET item_name == item_name_of(ingredient)
        key == <<item_name, ingredient.unit>>
    IN  IF item_name \in pantry_set THEN required_items
        ELSE dict_set(required_items, key,
                      dict_get(required_items, key, 0) + ingredient.quantity)

\* for ingredient in <list>: ...
RECURSIVE add_ingredients(_, _, _)
add_ingredients(required_items, ingredients, pantry_set) ==
    IF ingredients = <<>> THEN required_items
    ELSE add_ingredients(add_ingredient(required_items, Head(ingredients), pantry_set),
                         Tail(ingredients), pantry_set)

\* the lunch-prep block
add_lunch_prep(required_items, plan, pantry_set) ==
    IF "LunchPrep" \in DOMAIN plan /\ "ingredients" \in DOMAIN plan.LunchPrep
    THEN add_ingredients(required_items, plan.LunchPrep.ingredients, pantry_set)
    ELSE required_items

\* for meal in meal_plan.get('Dinners', {}).values(): if meal: ...
RECURSIVE add_dinners(_, _, _)
add_dinners(required_items, dinners, pantry_set) ==
    IF dinners = <<>> THEN required_items
    ELSE LET meal == Head(dinners)[2]
             next == IF meal # None
                     THEN add_ingredients(required_items, meal.ingredients, pantry_set)
                     ELSE required_items
         IN  add_dinners(next, Tail(dinners), pantry_set)

dinners_of(plan) == IF "Dinners" \in DOMAIN plan THEN plan.Dinners ELSE <<>>

\* required_items when both loops are over
required_items_of(plan, items) ==
    LET pantry_set == pantry_set_of(items)
    IN  add_dinners(add_lunch_prep(<<>>, plan, pantry_set), dinners_of(plan), pantry_set)

\* the order of sorted() on ((item, unit), quantity) tuples
item_lt(a, b) ==
    IF a[1][1] # b[1][1] THEN str_lt(a[1][1], b[1][1])
    ELSE IF a[1][2] # b[1][2] THEN str_lt(a[1][2], b[1][2])
    ELSE a[2] < b[2]

RECURSIVE insert_sorted(_, _)
insert_sorted(s, x) ==
    IF s = <<>> THEN <<x>>
    ELSE IF item_lt(x, Head(s)) THEN <<x>> \o s
    ELSE <<Head(s)>> \o insert_sorted(Tail(s), x)

RECURSIVE sort_items(_)
sort_items(d) ==
    IF d = <<>> THEN <<>> ELSE insert_sorted(sort_items(SubSeq(d, 1, Len(d) - 1)), d[Len(d)])

\* mutant: the items are left in insertion order
sorted_not(d) == d

\* sorted(required_items.items())
sorted(d) == sort_items(d)

\* mutant: the plural test reads quantity >= 1
unit_str_from_one(unit, quantity) ==
    unit \o (IF quantity >= 1 /\ Len(unit) > 1 THEN <<"s">> ELSE <<>>)

\* unit_str = unit + ('s' if quantity > 1 and len(unit) > 1 else '')
unit_str_of(unit, quantity) ==
    unit \o (IF quantity > 1 /\ Len(unit) > 1 THEN <<"s">> ELSE <<>>)

\* f"- {item.title()}: {quantity} {unit_str}\n"
format_line(item, unit, quantity) ==
    <<"-", " ">> \o title(item) \o <<":", " ">> \o str(quantity) \o <<" ">>
        \o unit_str_of(unit, quantity) \o <<"\n">>

RECURSIVE format_lines(_)
format_lines(items) ==
    IF items = <<>> THEN <<>>
    ELSE format_line(Head(items)[1][1], Head(items)[1][2], Head(items)[2])
            \o format_lines(Tail(items))

\* the part of the function after the two loops
shopping_list_str_of(required_items) ==
    IF required_items = <<>> THEN SENTINEL ELSE format_lines(sorted(required_items))

generate_shopping_list(plan, items) ==
    shopping_list_str_of(required_items_of(plan, items))

\* ------------------------------------------- inputs of the shopping list

RawNames == { <<"b">>, <<"B", " ">>, <<"a", " ", "b">> }
Units == { <<"g">>, <<"c", "a", "n">> }
Ingredients == [item : RawNames, quantity : 1..MaxQty, unit : Units]
Pantries == { <<>>, <<<<" ", "B">>, <<"x">>>> }

SeqsUpTo(S, n) == UNION {[1..k -> S] : k \in 0..n}

Meal(name, ingredients) ==
    [name |-> name, ingredients |-> ingredients, instructions |-> ""]

\* a plan whose prep list, one lunch and two dinners hold the ingredients of s, cut
\* at a, b and c: no LunchPrep key or no 'ingredients' key when the prep list is
\* empty, no lunch when it has no ingredient, and None as the second dinner when
\* nothing is left for it
PlanOf(s, a, b, c, prep) ==
    LET lunches == IF b > a THEN <<Meal("L1", SubSeq(s, a + 1, b))>> ELSE <<>>
        d1 == <<"Monday", Meal("D1", SubSeq(s, b + 1, c))>>
        d2 == <<"Tuesday", IF c = Len(s) THEN None ELSE Meal("D2", SubSeq(s, c + 1, Len(s)))>>
        dinners == <<d1, d2>>
    IN  CASE prep = "absent" -> [Lunches |-> lunches, Dinners |-> dinners]
          [] prep = "no_ingredients" ->
                [LunchPrep |-> [prep_instructions |-> ""],
                 Lunches |-> lunches, Dinners |-> dinners]
          [] OTHER ->
                [LunchPrep |-> [ingredients |-> SubSeq(s, 1, a), prep_instructions |-> ""],
                 Lunches |-> lunches, Dinners |-> dinners]

InitShopping ==
    /\ pc = "input"
    /\ \E s \in SeqsUpTo(Ingredients, MaxIngredients) :
         \E a \in 0..Len(s), prep \in {"absent", "no_ingredients", "present"} :
           \E b \in a..Len(s) :
             \E c \in b..Len(s) :
               /\ prep = "present" <=> a > 0
               /\ meal_plan = PlanOf(s, a, b, c, prep)
    /\ pantry_items \in Pantries
    /\ shopping_list = <<>>
    /\ generated_meals = None
    /\ sel = None
    /\ req = None
    /\ selected_days = <<>>
    /\ dinner_settings = <<>>
    /\ requested = {}
    /\ last = None

\* st.session_state.shopping_list = generate_shopping_list(meal_plan, pantry_items)
GenerateShoppingList ==
    /\ pc = "input"
    /\ shopping_list' = generate_shopping_list(meal_plan, pantry_items)
    /\ pc' = "done"
    /\ UNCHANGED <<meal_plan, pantry_items, generated_meals, sel, req,
                   selected_days, dinner_settings, requested, last>>

NextShopping == GenerateShoppingList

SpecShopping == InitShopping /\ [][NextShopping]_vars

\* --------------------------------------------------------- get_random_meal


\* 'generated_meals' not in st.session_state
Missing == [missing |-> TRUE]

\* a dict with no key
EmptyDict == [x \in {} |-> None]

Returned(value) == [raised |-> FALSE, exception |-> "", value |-> value]
Raised(exception) == [raised |-> TRUE, exception |-> exception, value |-> None]

SentinelMeal(name) == [name |-> name, ingredients |-> <<>>, instructions |-> ""]

\* the argument existing_meals: None, a list of meals, or one meal (a dict), as the
\* dinner regeneration and the tests pass it
NoExisting == [kind |-> "None"]
ExistingList(meals) == [kind |-> "list", meals |-> meals]
ExistingMeal(meal) == [kind |-> "dict", meal |-> meal]

\* existing_names = [m['name'] for m in (existing_meals or [])]: None and the empty
\* list give no name; a meal is a non-empty dict, iterating it yields its keys, and
\* m['name'] on a key (a str) raises TypeError
existing_names_of(existing_meals) ==
    CASE existing_meals.kind = "None" -> Returned(<<>>)
      [] existing_meals.kind = "list" ->
            Returned([i \in DOMAIN existing_meals.meals |-> existing_meals.meals[i].name])
      [] OTHER -> Raised("TypeError")

\* st.session_state.generated_meals.get(meal_type, [])
meal_list_of(pools, meal_type) ==
    IF meal_type \in DOMAIN pools THEN pools[meal_type] ELSE <<>>

\* random.choice(eligible_meals) if eligible_meals else random.choice(meal_list):
\* every entry the choice can return
choice_of(eligible_meals, meal_list) ==
    IF eligible_meals # <<>> THEN Range(eligible_meals) ELSE Range(meal_list)

RECURSIVE SelectSeq2(_, _)
SelectSeq2(s, names) ==
    IF s = <<>> THEN <<>>
    ELSE (IF Head(s).name \in names THEN <<>> ELSE <<Head(s)>>) \o SelectSeq2(Tail(s), names)

\* eligible_meals = [m for m in meal_list if m['name'] not in existing_names]
eligible_meals_of(meal_list, existing_names) == SelectSeq2(meal_list, Range(existing_names))

\* every outcome of get_random_meal(meal_type, existing_meals) in a session whose
\* generated_meals is pools
get_random_meal(pools, meal_type, existing_meals) ==
    IF pools = Missing \/ pools = None \/ pools = EmptyDict
    THEN {Returned(SentinelMeal("Generate plan first!"))}
    ELSE LET meal_list == meal_list_of(pools, meal_type)
         IN  IF meal_list = <<>>
             THEN {Returned(SentinelMeal("No meals for this style."))}
             ELSE LET existing_names == existing_names_of(existing_meals)
                  IN  IF existing_names.raised THEN {existing_names}
                      ELSE {Returned(m) :
                              m \in choice_of(eligible_meals_of(meal_list,
                                                                existing_names.value),
                                              meal_list)}

\* ---------------------------------------------- inputs of get_random_meal

MealNames == {"Tuna Sandwich", "Chicken Wrap"}
PoolMeals == [name : MealNames, ingredients : {<<>>}, instructions : {"", "Mix."}]
Pools == SeqsUpTo(PoolMeals, MaxPool)
MealTypes == {"Lunch", "QuickDinner"}
GeneratedMeals ==
    {Missing, None, EmptyDict}
        \cup {[Lunch |-> p] : p \in Pools}
        \cup {[Lunch |-> <<>>, QuickDinner |-> p] : p \in Pools}
ExistingArgs ==
    {NoExisting}
        \cup {ExistingMeal(m) : m \in PoolMeals}
        \cup {ExistingList(l) : l \in SeqsUpTo(PoolMeals, MaxExisting)}

InitSelector ==
    /\ pc = "input"
    /\ generated_meals \in GeneratedMeals
    /\ \E t \in MealTypes, e \in ExistingArgs :
          sel = [meal_type |-> t, existing_meals |-> e, outcome |-> None]
    /\ meal_plan = EmptyDict
    /\ pantry_items = <<>>
    /\ shopping_list = <<>>
    /\ req = None
    /\ selected_days = <<>>
    /\ dinner_settings = <<>>
    /\ requested = {}
    /\ last = None

\* one call get_random_meal(sel.meal_type, sel.existing_meals)
GetRandomMeal ==
    /\ pc = "input"
    /\ \E o \in get_random_meal(generated_meals, sel.meal_type, sel.existing_meals) :
          sel' = [sel EXCEPT !.outcome = o]
    /\ pc' = "done"
    /\ UNCHANGED <<meal_plan, pantry_items, shopping_list, generated_meals, req,
                   selected_days, dinner_settings, requested, last>>

NextSelector == GetRandomMeal

SpecSelector == InitSelector /\ [][NextSelector]_vars

\* ---------------------------------------------- generate_meals_with_gemini

QUICK_COOK == "Quick Cook (<30 mins)"
FULL_COOK == "Full Cook (longer prep)"

\* any(d['plan'] and d['style'] == style for d in dinner_settings.values())
any_planned(settings, style) ==
    \E day \in DOMAIN settings :
        settings[day].plan /\ settings[day].style = style

\* mutant: the plan flag is not read
any_styled(settings) ==
    [QuickDinner |-> \E day \in DOMAIN settings : settings[day].style = QUICK_COOK,
     FullDinner |-> \E day \in DOMAIN settings : settings[day].style = FULL_COOK]

\* the two conditions under which a dinner section is added
dinner_sections(settings) ==
    [QuickDinner |-> any_planned(settings, QUICK_COOK),
     FullDinner |-> any_planned(settings, FULL_COOK)]

\* json_schema_properties: each top-level pool with the type the schema gives it
json_schema_properties_of(settings) ==
    LET add == dinner_sections(settings)
        keys == {"LunchPrep", "LunchAssembly"}
                    \cup (IF add.QuickDinner THEN {"QuickDinner"} ELSE {})
                    \cup (IF add.FullDinner THEN {"FullDinner"} ELSE {})
    IN  [k \in keys |-> IF k = "LunchPrep" THEN "OBJECT" ELSE "ARRAY"]

\* required_properties, a list, in the order of its appends
required_properties_of(settings) ==
    LET add == dinner_sections(settings)
    IN  <<"LunchPrep", "LunchAssembly">>
            \o (IF add.QuickDinner THEN <<"QuickDinner">> ELSE <<>>)
            \o (IF add.FullDinner THEN <<"FullDinner">> ELSE <<>>)

\* every list that holds each element of S once
RECURSIVE orders_of(_)
orders_of(S) ==
    IF S = {} THEN {<<>>} ELSE UNION {{<<x>> \o t : t \in orders_of(S \ {x})} : x \in S}

\* list(set(required_properties)): the distinct names, in any order
list_of_set(l) == orders_of(Range(l))

\* the pieces of user_prompt around the interpolated values
PROMPT_REQUIREMENTS ==
    <<"C", "r", "e", "a", "t", "e", " ", "a", " ", "m", "e", "a", "l", " ", "p", "l", "a", "n",
     " ", "f", "o", "r", " ", "o", "n", "e", " ", "p", "e", "r", "s", "o", "n", " ", "b", "a",
     "s", "e", "d", " ", "o", "n", " ", "t", "h", "e", "s", "e", " ", "d", "i", "e", "t", "a",
     "r", "y", " ", "r", "e", "q", "u", "i", "r", "e", "m", "e", "n", "t", "s", ":", " ", "'">>

PROMPT_LUNCH_PLAN ==
    <<"'", ".", "\n", "\n", "L", "U", "N", "C", "H", " ", "P", "L", "A", "N", " ", "(", "f",
     "o", "r", " ">>

PROMPT_FIRST ==
    <<" ", "d", "a", "y", "s", ")", ":", "\n", "1", ".", " ", " ", "F", "i", "r", "s", "t",
     ",", " ", "c", "r", "e", "a", "t", "e", " ", "a", " ", "c", "o", "n", "s", "o", "l", "i",
     "d", "a", "t", "e", "d", " ", "'", "L", "u", "n", "c", "h", "P", "r", "e", "p", "'", " ",
     "p", "l", "a", "n", ".", " ", "T", "h", "i", "s", " ", "s", "h", "o", "u", "l", "d", " ",
     "i", "n", "c", "l", "u", "d", "e", " ", "a", "n", " ", "a", "g", "g", "r", "e", "g", "a",
     "t", "e", "d", " ", "l", "i", "s", "t", " ", "o", "f", " ", "a", "l", "l", " ", "i", "n",
     "g", "r", "e", "d", "i", "e", "n", "t", "s", " ", "f", "o", "r", " ", "t", "h", "e", " ",
     "l", "u", "n", "c", "h", "e", "s", ",", " ", "a", "n", "d", " ", "o", "n", "e", " ", "s",
     "i", "n", "g", "l", "e", " ", "s", "e", "t", " ", "o", "f", " ", "c", "o", "h", "e", "s",
     "i", "v", "e", " ", "i", "n", "s", "t", "r", "u", "c", "t", "i", "o", "n", "s", " ", "f",
     "o", "r", " ", "p", "r", "e", "p", "p", "i", "n", "g", " ", "a", "l", "l", " ", "c", "o",
     "m", "p", "o", "n", "e", "n", "t", "s", " ", "t", "o", "g", "e", "t", "h", "e", "r", " ",
     "d", "u", "r", "i", "n", "g", " ", "a", " ", "w", "e", "e", "k", "e", "n", "d", " ", "s",
     "e", "s", "s", "i", "o", "n", " ", "(", "e", ".", "g", ".", ",", " ", "c", "o", "o", "k",
     " ", "a", "l", "l", " ", "g", "r", "a", "i", "n", "s", ",", " ", "r", "o", "a", "s", "t",
     " ", "a", "l", "l", " ", "v", "e", "g", "e", "t", "a", "b", "l", "e", "s", ",", " ", "p",
     "r", "e", "p", "a", "r", "e", " ", "a", "l", "l", " ", "p", "r", "o", "t", "e", "i", "n",
     "s", ")", ".", "\n", "2", ".", " ", " ", "T", "h", "e", "n", ",", " ", "c", "r", "e", "a",
     "t", "e", " ">>

PROMPT_THEN ==
    <<" ", "u", "n", "i", "q", "u", "e", " ", "'", "L", "u", "n", "c", "h", "A", "s", "s", "e",
     "m", "b", "l", "y", "'", " ", "p", "l", "a", "n", "s", ".", " ", "E", "a", "c", "h", " ",
     "s", "h", "o", "u", "l", "d", " ", "h", "a", "v", "e", " ", "a", " ", "c", "r", "e", "a",
     "t", "i", "v", "e", " ", "n", "a", "m", "e", " ", "a", "n", "d", " ", "s", "i", "m", "p",
     "l", "e", " ", "i", "n", "s", "t", "r", "u", "c", "t", "i", "o", "n", "s", " ", "f", "o",
     "r", " ", "a", "s", "s", "e", "m", "b", "l", "i", "n", "g", " ", "t", "h", "e", " ", "p",
     "r", "e", "p", "p", "e", "d", " ", "c", "o", "m", "p", "o", "n", "e", "n", "t", "s", " ",
     "i", "n", "t", "o", " ", "a", " ", "m", "e", "a", "l", " ", "e", "a", "c", "h", " ", "d",
     "a", "y", ".", "\n", "\n", "D", "I", "N", "N", "E", "R", " ", "P", "L", "A", "N", ":",
     "\n">>

\* mutant: the quick-cook wording loses its hyphen
QUICK_PART_UNHYPHENATED ==
    <<"a", " ", "l", "i", "s", "t", " ", "o", "f", " ", "7", " ", "q", "u", "i", "c", "k", " ",
     "c", "o", "o", "k", " ", "(", "u", "n", "d", "e", "r", " ", "3", "0", " ", "m", "i", "n",
     "u", "t", "e", "s", ")", " ", "d", "i", "n", "n", "e", "r", " ", "i", "d", "e", "a", "s">>

\* dinner_prompt_parts.append(...) of the quick-cook pool
QUICK_PART ==
    <<"a", " ", "l", "i", "s", "t", " ", "o", "f", " ", "7", " ", "q", "u", "i", "c", "k", "-",
     "c", "o", "o", "k", " ", "(", "u", "n", "d", "e", "r", " ", "3", "0", " ", "m", "i", "n",
     "u", "t", "e", "s", ")", " ", "d", "i", "n", "n", "e", "r", " ", "i", "d", "e", "a", "s">>

\* dinner_prompt_parts.append(...) of the full-cook pool
FULL_PART ==
    <<"a", " ", "l", "i", "s", "t", " ", "o", "f", " ", "7", " ", "'", "f", "u", "l", "l", " ",
     "c", "o", "o", "k", "'", " ", "(", "m", "o", "r", "e", " ", "i", "n", "v", "o", "l", "v",
     "e", "d", ")", " ", "d", "i", "n", "n", "e", "r", " ", "i", "d", "e", "a", "s">>

\* the pieces of dinner_prompt
ALSO ==
    <<"A", "l", "s", "o", ",", " ", "p", "l", "e", "a", "s", "e", " ", "g", "e", "n", "e", "r",
     "a", "t", "e", " ">>

AND ==
    <<" ", "a", "n", "d", " ">>

FOR_TWO ==
    <<" ", "f", "o", "r", " ", "t", "w", "o", " ", "p", "e", "o", "p", "l", "e", ".">>

\* mutant: dinner_prompt_parts with the quick-cook wording changed
dinner_prompt_parts_unhyphenated(settings) ==
    LET add == dinner_sections(settings)
    IN  (IF add.QuickDinner THEN <<QUICK_PART_UNHYPHENATED>> ELSE <<>>)
            \o (IF add.FullDinner THEN <<FULL_PART>> ELSE <<>>)

\* dinner_prompt_parts, in the order of its appends
dinner_prompt_parts_of(settings) ==
    LET add == dinner_sections(settings)
    IN  (IF add.QuickDinner THEN <<QUICK_PART>> ELSE <<>>)
            \o (IF add.FullDinner THEN <<FULL_PART>> ELSE <<>>)

\* sep.join(parts)
RECURSIVE join(_, _)
join(sep, parts) ==
    IF parts = <<>> THEN <<>>
    ELSE IF Len(parts) = 1 THEN Head(parts)
    ELSE Head(parts) \o sep \o join(sep, Tail(parts))

\* dinner_prompt
dinner_prompt_of(settings) ==
    LET parts == dinner_prompt_parts_of(settings)
    IN  IF parts # <<>> THEN ALSO \o join(AND, parts) \o FOR_TWO ELSE <<>>

\* user_prompt
user_prompt_of(dietary_prefs, settings, num_lunches) ==
    PROMPT_REQUIREMENTS \o dietary_prefs \o PROMPT_LUNCH_PLAN \o str(num_lunches)
        \o PROMPT_FIRST \o str(num_lunches) \o PROMPT_THEN
        \o dinner_prompt_of(settings)

\* every payload the call can post: the order of 'required' is the set's
payloads_of(dietary_prefs, settings, num_lunches) ==
    LET user_prompt == user_prompt_of(dietary_prefs, settings, num_lunches)
        json_schema_properties == json_schema_properties_of(settings)
    IN  {[generationConfig |->
            [responseSchema |->
                [required |-> r,
                 type |-> "OBJECT",
                 properties |-> json_schema_properties],
             responseMimeType |-> "application/json"],
          systemInstruction |-> "You are an expert meal prep chef. ...",
          contents |-> user_prompt] :
            r \in list_of_set(required_properties_of(settings))}

\* JSON values as json.loads and response.json() return them
JNull == [t |-> "null"]
JNum(n) == [t |-> "number", n |-> n]
JStr(text) == [t |-> "str", s |-> text]
JList(l) == [t |-> "list", l |-> l]
JDict(d) == [t |-> "dict", d |-> d]

\* v[key] for a str key: KeyError on a dict without it, TypeError on a list, a str,
\* a number or None
getitem_key(v, key) ==
    IF v.t = "dict"
    THEN IF key \in DOMAIN v.d THEN Returned(v.d[key]) ELSE Raised("KeyError")
    ELSE Raised("TypeError")

\* v[0]: IndexError on an empty list or str, KeyError on a dict (its keys are str),
\* TypeError on a number or None
getitem_0(v) ==
    CASE v.t = "list" -> IF v.l # <<>> THEN Returned(v.l[1]) ELSE Raised("IndexError")
      [] v.t = "str" -> IF v.s # "" THEN Returned(JStr("?")) ELSE Raised("IndexError")
      [] v.t = "dict" -> Raised("KeyError")
      [] OTHER -> Raised("TypeError")

\* the texts the model lets the service answer, with what json.loads makes of them
JsonTexts ==
    <<  <<"{\"Lunch\": [{\"name\": \"Test Lunch\"}]}",
          Returned([Lunch |-> <<[name |-> "Test Lunch"]>>])>>,
        <<"{\"LunchPrep\": {\"ingredients\": [], \"prep_instructions\": \"\"}, \"LunchAssembly\": []}",
          Returned([LunchPrep |-> [ingredients |-> <<>>, prep_instructions |-> ""],
                    LunchAssembly |-> <<>>])>>,
        <<"{}", Returned(EmptyDict)>>,
        <<"null", Returned(None)>>,
        <<"this is not json", Raised("JSONDecodeError")>>,
        <<"", Raised("JSONDecodeError")>>  >>

\* the meals of the pool documents
StirFry ==
    [name |-> "Stir Fry", ingredients |-> <<[item |-> <<"C", "h", "i", "c", "k", "e", "n">>, quantity |-> 1, unit |-> <<"l", "b">>]>>, instructions |-> "Fry."]

Omelette ==
    [name |-> "Omelette", ingredients |-> <<[item |-> <<"E", "g", "g", "s">>, quantity |-> 2, unit |-> <<"p", "i", "e", "c", "e">>]>>, instructions |-> "Whisk."]

Roast ==
    [name |-> "Roast", ingredients |-> <<[item |-> <<"B", "e", "e", "f">>, quantity |-> 1, unit |-> <<"l", "b">>], [item |-> <<"S", "a", "l", "t">>, quantity |-> 1, unit |-> <<"g">>]>>, instructions |-> "Roast."]

\* the documents a service that honours the response schema answers, two for
\* each set of dinner sections, with what json.loads makes of them
PoolTexts ==
    <<
    <<"{\"LunchPrep\": {\"ingredients\": [{\"item\": \"Rice\", \"quantity\": 1, \"unit\": \"cup\"}, {\"item\": \"Salt\", \"quantity\": 1, \"unit\": \"g\"}], \"prep_instructions\": \"Cook the rice.\"}, \"LunchAssembly\": [{\"name\": \"Rice Bowl\", \"assembly_instructions\": \"Mix.\"}]}",
      Returned([LunchPrep |-> [ingredients |-> <<[item |-> <<"R", "i", "c", "e">>, quantity |-> 1, unit |-> <<"c", "u", "p">>], [item |-> <<"S", "a", "l", "t">>, quantity |-> 1, unit |-> <<"g">>]>>, prep_instructions |-> "Cook the rice."],
           LunchAssembly |-> <<[name |-> "Rice Bowl", assembly_instructions |-> "Mix."]>>])>>,
    <<"{\"LunchPrep\": {\"ingredients\": [{\"item\": \"Rice\", \"quantity\": 1, \"unit\": \"cup\"}, {\"item\": \"Salt\", \"quantity\": 1, \"unit\": \"g\"}], \"prep_instructions\": \"Cook the rice.\"}, \"LunchAssembly\": [{\"name\": \"Rice Bowl\", \"assembly_instructions\": \"Mix.\"}], \"QuickDinner\": [{\"name\": \"Stir Fry\", \"ingredients\": [{\"item\": \"Chicken\", \"quantity\": 1, \"unit\": \"lb\"}], \"instructions\": \"Fry.\"}, {\"name\": \"Omelette\", \"ingredients\": [{\"item\": \"Eggs\", \"quantity\": 2, \"unit\": \"piece\"}], \"instructions\": \"Whisk.\"}]}",
      Returned([LunchPrep |-> [ingredients |-> <<[item |-> <<"R", "i", "c", "e">>, quantity |-> 1, unit |-> <<"c", "u", "p">>], [item |-> <<"S", "a", "l", "t">>, quantity |-> 1, unit |-> <<"g">>]>>, prep_instructions |-> "Cook the rice."],
           LunchAssembly |-> <<[name |-> "Rice Bowl", assembly_instructions |-> "Mix."]>>,
           QuickDinner |-> <<StirFry, Omelette>>])>>,
    <<"{\"LunchPrep\": {\"ingredients\": [{\"item\": \"Rice\", \"quantity\": 1, \"unit\": \"cup\"}, {\"item\": \"Salt\", \"quantity\": 1, \"unit\": \"g\"}], \"prep_instructions\": \"Cook the rice.\"}, \"LunchAssembly\": [{\"name\": \"Rice Bowl\", \"assembly_instructions\": \"Mix.\"}], \"FullDinner\": [{\"name\": \"Roast\", \"ingredients\": [{\"item\": \"Beef\", \"quantity\": 1, \"unit\": \"lb\"}, {\"item\": \"Salt\", \"quantity\": 1, \"unit\": \"g\"}], \"instructions\": \"Roast.\"}]}",
      Returned([LunchPrep |-> [ingredients |-> <<[item |-> <<"R", "i", "c", "e">>, quantity |-> 1, unit |-> <<"c", "u", "p">>], [item |-> <<"S", "a", "l", "t">>, quantity |-> 1, unit |-> <<"g">>]>>, prep_instructions |-> "Cook the rice."],
           LunchAssembly |-> <<[name |-> "Rice Bowl", assembly_instructions |-> "Mix."]>>,
           FullDinner |-> <<Roast>>])>>,
    <<"{\"LunchPrep\": {\"ingredients\": [{\"item\": \"Rice\", \"quantity\": 1, \"unit\": \"cup\"}, {\"item\": \"Salt\", \"quantity\": 1, \"unit\": \"g\"}], \"prep_instructions\": \"Cook the rice.\"}, \"LunchAssembly\": [{\"name\": \"Rice Bowl\", \"assembly_instructions\": \"Mix.\"}], \"QuickDinner\": [{\"name\": \"Stir Fry\", \"ingredients\": [{\"item\": \"Chicken\", \"quantity\": 1, \"unit\": \"lb\"}], \"instructions\": \"Fry.\"}, {\"name\": \"Omelette\", \"ingredients\": [{\"item\": \"Eggs\", \"quantity\": 2, \"unit\": \"piece\"}], \"instructions\": \"Whisk.\"}], \"FullDinner\": [{\"name\": \"Roast\", \"ingredients\": [{\"item\": \"Beef\", \"quantity\": 1, \"unit\": \"lb\"}, {\"item\": \"Salt\", \"quantity\": 1, \"unit\": \"g\"}], \"instructions\": \"Roast.\"}]}",
      Returned([LunchPrep |-> [ingredients |-> <<[item |-> <<"R", "i", "c", "e">>, quantity |-> 1, unit |-> <<"c", "u", "p">>], [item |-> <<"S", "a", "l", "t">>, quantity |-> 1, unit |-> <<"g">>]>>, prep_instructions |-> "Cook the rice."],
           LunchAssembly |-> <<[name |-> "Rice Bowl", assembly_instructions |-> "Mix."]>>,
           QuickDinner |-> <<StirFry, Omelette>>,
           FullDinner |-> <<Roast>>])>>,
    <<"{\"LunchPrep\": {\"ingredients\": [{\"item\": \"Beans\", \"quantity\": 2, \"unit\": \"can\"}], \"prep_instructions\": \"Rinse the beans.\"}, \"LunchAssembly\": [{\"name\": \"Bean Salad\", \"assembly_instructions\": \"Toss.\"}]}",
      Returned([LunchPrep |-> [ingredients |-> <<[item |-> <<"B", "e", "a", "n", "s">>, quantity |-> 2, unit |-> <<"c", "a", "n">>]>>, prep_instructions |-> "Rinse the beans."],
           LunchAssembly |-> <<[name |-> "Bean Salad", assembly_instructions |-> "Toss."]>>])>>,
    <<"{\"LunchPrep\": {\"ingredients\": [{\"item\": \"Beans\", \"quantity\": 2, \"unit\": \"can\"}], \"prep_instructions\": \"Rinse the beans.\"}, \"LunchAssembly\": [{\"name\": \"Bean Salad\", \"assembly_instructions\": \"Toss.\"}], \"QuickDinner\": [{\"name\": \"Omelette\", \"ingredients\": [{\"item\": \"Eggs\", \"quantity\": 2, \"unit\": \"piece\"}], \"instructions\": \"Whisk.\"}]}",
      Returned([LunchPrep |-> [ingredients |-> <<[item |-> <<"B", "e", "a", "n", "s">>, quantity |-> 2, unit |-> <<"c", "a", "n">>]>>, prep_instructions |-> "Rinse the beans."],
           LunchAssembly |-> <<[name |-> "Bean Salad", assembly_instructions |-> "Toss."]>>,
           QuickDinner |-> <<Omelette>>])>>,
    <<"{\"LunchPrep\": {\"ingredients\": [{\"item\": \"Beans\", \"quantity\": 2, \"unit\": \"can\"}], \"prep_instructions\": \"Rinse the beans.\"}, \"LunchAssembly\": [{\"name\": \"Bean Salad\", \"assembly_instructions\": \"Toss.\"}], \"FullDinner\": [{\"name\": \"Roast\", \"ingredients\": [{\"item\": \"Beef\", \"quantity\": 1, \"unit\": \"lb\"}, {\"item\": \"Salt\", \"quantity\": 1, \"unit\": \"g\"}], \"instructions\": \"Roast.\"}]}",
      Returned([LunchPrep |-> [ingredients |-> <<[item |-> <<"B", "e", "a", "n", "s">>, quantity |-> 2, unit |-> <<"c", "a", "n">>]>>, prep_instructions |-> "Rinse the beans."],
           LunchAssembly |-> <<[name |-> "Bean Salad", assembly_instructions |-> "Toss."]>>,
           FullDinner |-> <<Roast>>])>>,
    <<"{\"LunchPrep\": {\"ingredients\": [{\"item\": \"Beans\", \"quantity\": 2, \"unit\": \"can\"}], \"prep_instructions\": \"Rinse the beans.\"}, \"LunchAssembly\": [{\"name\": \"Bean Salad\", \"assembly_instructions\": \"Toss.\"}], \"QuickDinner\": [{\"name\": \"Omelette\", \"ingredients\": [{\"item\": \"Eggs\", \"quantity\": 2, \"unit\": \"piece\"}], \"instructions\": \"Whisk.\"}], \"FullDinner\": [{\"name\": \"Roast\", \"ingredients\": [{\"item\": \"Beef\", \"quantity\": 1, \"unit\": \"lb\"}, {\"item\": \"Salt\", \"quantity\": 1, \"unit\": \"g\"}], \"instructions\": \"Roast.\"}]}",
      Returned([LunchPrep |-> [ingredients |-> <<[item |-> <<"B", "e", "a", "n", "s">>, quantity |-> 2, unit |-> <<"c", "a", "n">>]>>, prep_instructions |-> "Rinse the beans."],
           LunchAssembly |-> <<[name |-> "Bean Salad", assembly_instructions |-> "Toss."]>>,
           QuickDinner |-> <<Omelette>>,
           FullDinner |-> <<Roast>>])>>
    >>


\* json.loads(v): TypeError unless v is a str
json_loads(v) ==
    IF v.t # "str" THEN Raised("TypeError")
    ELSE LET texts == JsonTexts \o PoolTexts
         IN  IF \E i \in DOMAIN texts : texts[i][1] = v.s
             THEN texts[CHOOSE i \in DOMAIN texts : texts[i][1] = v.s][2]
             ELSE Raised("JSONDecodeError")

\* a step of response_json['candidates'][0]['content']['parts'][0]['text'] on the
\* outcome of the step before it
then_key(o, key) == IF o.raised THEN o ELSE getitem_key(o.value, key)
then_0(o) == IF o.raised THEN o ELSE getitem_0(o.value)

\* json_string = response_json['candidates'][0]['content']['parts'][0]['text']
json_string_of(response_json) ==
    then_key(then_0(then_key(then_key(then_0(
        then_key(Returned(response_json), "candidates")), "content"), "parts")), "text")

\* return json.loads(json_string)
parsed_of(response_json) ==
    LET json_string == json_string_of(response_json)
    IN  IF json_string.raised THEN json_string ELSE json_loads(json_string.value)

\* a body that is no JSON document
NotJson == [t |-> "not json"]

\* every outcome of the try block: what it returns or the exception it raises.
\* response.json() on a body that is no JSON raises requests' JSONDecodeError, a
\* RequestException since requests 2.27 and json's JSONDecodeError before
try_block(http) ==
    IF http.post = "raises" THEN {Raised("RequestException")}
    ELSE IF http.status \in 400..599 THEN {Raised("RequestException")}
    ELSE IF http.body = NotJson
         THEN {Raised("RequestException"), Raised("JSONDecodeError")}
    ELSE {parsed_of(http.body)}

NO_KEY_MESSAGE == "GEMINI_API_KEY not found. Please add it to your .streamlit/secrets.toml file."
REQUEST_FAILED == "API request failed: "
PARSE_FAILED == "Failed to parse API response: "

\* the outcome of a call: what it returns or raises, the st.error messages it shows
\* and the payload it posted, None when it posted none
Outcome(o, errors, posted) ==
    [raised |-> o.raised, exception |-> o.exception, value |-> o.value,
     errors |-> errors, posted |-> posted]

\* the two except clauses
except_clauses(o, posted) ==
    IF ~o.raised THEN Outcome(o, <<>>, posted)
    ELSE IF o.exception = "RequestException"
         THEN Outcome(Returned(None), <<REQUEST_FAILED>>, posted)
    ELSE IF o.exception \in {"KeyError", "IndexError", "JSONDecodeError"}
         THEN Outcome(Returned(None), <<PARSE_FAILED>>, posted)
    ELSE Outcome(o, <<>>, posted)

\* every outcome of generate_meals_with_gemini(dietary_prefs, dinner_settings,
\* num_lunches) when st.secrets has the key or not and the service answers http
generate_meals_with_gemini(has_key, dietary_prefs, settings, num_lunches, http) ==
    IF ~has_key THEN {Outcome(Returned(None), <<NO_KEY_MESSAGE>>, None)}
    ELSE {except_clauses(o, payload) :
            o \in try_block(http),
            payload \in payloads_of(dietary_prefs, settings, num_lunches)}

\* ------------------------------------ inputs of generate_meals_with_gemini


Days == {"Monday", "Tuesday", "Wednesday"}
Styles == {QUICK_COOK, FULL_COOK}
DinnerSettings ==
    UNION {[days -> [plan : BOOLEAN, style : Styles]] : days \in SUBSET Days}

\* the cues the tests look for in the instruction text
QUICK_CUE ==
    <<"q", "u", "i", "c", "k", "-", "c", "o", "o", "k">>

FULL_CUE ==
    <<"f", "u", "l", "l", " ", "c", "o", "o", "k">>

DietaryPrefs == {<<>>, <<"a", "n", "y">>, QUICK_CUE, <<"n", "o", " ">> \o FULL_CUE}

Candidates(content) == JDict([candidates |-> JList(<<JDict([content |-> content])>>)])
TextBody(text) == Candidates(JDict([parts |-> JList(<<JDict([text |-> text])>>)]))

Bodies ==
    {NotJson, JNull, JList(<<>>), JDict(EmptyDict),
     JDict([candidates |-> JNull]), JDict([candidates |-> JList(<<>>)]),
     JDict([candidates |-> JList(<<JDict([finishReason |-> JStr("SAFETY")])>>)]),
     Candidates(JStr("text")), Candidates(JDict([parts |-> JList(<<>>)])),
     Candidates(JDict([parts |-> JList(<<JDict(EmptyDict)>>)])),
     TextBody(JNum(7)), TextBody(JNull)}
        \cup {TextBody(JStr(JsonTexts[i][1])) : i \in DOMAIN JsonTexts}

Https ==
    {[post |-> "raises", status |-> 0, body |-> NotJson]}
        \cup {[post |-> "returns", status |-> st, body |-> JDict(EmptyDict)] : st \in {404, 503}}
        \cup {[post |-> "returns", status |-> 200, body |-> b] : b \in Bodies}

InitGenerate ==
    /\ pc = "input"
    /\ \E k \in BOOLEAN, p \in DietaryPrefs, d \in DinnerSettings,
          n \in 0..MaxLunches, h \in Https :
          req = [has_key |-> k, dietary_prefs |-> p, dinner_settings |-> d,
                 num_lunches |-> n, http |-> h, outcome |-> None]
    /\ generated_meals = None
    /\ meal_plan = EmptyDict
    /\ pantry_items = <<>>
    /\ shopping_list = <<>>
    /\ sel = None
    /\ selected_days = <<>>
    /\ dinner_settings = <<>>
    /\ requested = {}
    /\ last = None

\* one call generate_meals_with_gemini(dietary_prefs, dinner_settings, num_lunches)
GenerateMeals ==
    /\ pc = "input"
    /\ \E o \in generate_meals_with_gemini(req.has_key, req.dietary_prefs,
                                           req.dinner_settings, req.num_lunches, req.http) :
          req' = [req EXCEPT !.outcome = o]
    /\ pc' = "done"
    /\ UNCHANGED <<meal_plan, pantry_items, shopping_list, generated_meals, sel,
                   selected_days, dinner_settings, requested, last>>

NextGenerate == GenerateMeals

SpecGenerate == InitGenerate /\ [][NextGenerate]_vars

\* ------------------------------------------------------- main: the session

\* days_of_week, cut to its first days: both are among default_days
days_of_week == <<"Monday", "Tuesday">>

\* the default of the text input dietary_prefs
DEFAULT_PREFS ==
    <<"g", "l", "u", "t", "e", "n", "-", "f", "r", "e", "e", ",", " ", "l", "o", "w",
      "-", "a", "c", "i", "d", ",", " ", "n", "o", " ", "n", "u", "t", "s", ",", " ",
      "h", "i", "g", "h", "-", "p", "r", "o", "t", "e", "i", "n", ",", " ", "m", "e",
      "a", "t", "-", "f", "o", "c", "u", "s", "e", "d">>

\* the default of st.session_state.pantry_items
DEFAULT_PANTRY ==
    <<<<"O", "l", "i", "v", "e", " ", "O", "i", "l">>,
      <<"S", "a", "l", "t">>,
      <<"B", "l", "a", "c", "k", " ", "P", "e", "p", "p", "e", "r">>,
      <<"G", "a", "r", "l", "i", "c">>,
      <<"O", "n", "i", "o", "n", " ", "P", "o", "w", "d", "e", "r">>>>

\* what the user leaves in the pantry text area
PantryTexts ==
    {<<"R", "i", "c", "e", "\n", " ", "s", "a", "l", "t", " ", "\n", "\n", "G", "a", "r", "l", "i", "c">>}

\* the setting a selected day gets when it has none
DEFAULT_SETTING == [plan |-> TRUE, style |-> QUICK_COOK]

\* selected_days: the days whose radio says "Plan", in the order of days_of_week
selected_days_of(chosen) == SelectSeq(days_of_week, LAMBDA day : day \in chosen)

\* for day in selected_days: if day not in st.session_state.dinner_settings: ...
settings_for(settings, days) ==
    [day \in DOMAIN settings \cup Range(days) |->
        IF day \in DOMAIN settings THEN settings[day] ELSE DEFAULT_SETTING]

\* meal_pool = "QuickDinner" if day_settings['style'] == "Quick Cook (<30 mins)" else "FullDinner"
meal_pool_of(day_settings) ==
    IF day_settings.style = QUICK_COOK THEN "QuickDinner" ELSE "FullDinner"

\* d.get(key, default) on a dict with str keys
get(d, key, default) == IF key \in DOMAIN d THEN d[key] ELSE default

\* d.update(other) on dicts with str keys
update(d, other) ==
    [key \in DOMAIN d \cup DOMAIN other |-> IF key \in DOMAIN other THEN other[key] ELSE d[key]]

\* the truth value of a dict or None
truthy(d) == d # None /\ d # EmptyDict

\* what a script run that made a generation call or drew a dinner leaves to tell: the
\* button, its day, how the generation call ended ("raised", "none" for a falsy
\* result, "meals") and how the handler ended ("done", "error", "warning", or
\* "raised" when an exception left it)
Run(widget, day, call, result) ==
    [widget |-> widget, day |-> day, call |-> call, result |-> result]

\* a script run of any other widget, and the first run
NoCall == Run("", "", "", "done")

\* how a generation call ended, for the handler that made it
call_of(o) == IF o.raised THEN "raised" ELSE IF truthy(o.value) THEN "meals" ELSE "none"

\* the dinner sections of the schema a call posted
requested_in(posted) ==
    IF posted = None THEN {}
    ELSE DOMAIN posted.generationConfig.responseSchema.properties
            \cap {"QuickDinner", "FullDinner"}

\* what the service answers in a session: no connection, a body without candidates,
\* or a document with the two lunch sections and the dinner sections of the schema
SessionHttps(settings) ==
    LET sections == {k \in {"QuickDinner", "FullDinner"} : dinner_sections(settings)[k]}
    IN  {[post |-> "raises", status |-> 0, body |-> NotJson],
         [post |-> "returns", status |-> 200, body |-> JDict([candidates |-> JNull])]}
            \cup {[post |-> "returns", status |-> 200,
                   body |-> TextBody(JStr(PoolTexts[i][1]))] :
                    i \in {j \in DOMAIN PoolTexts :
                            DOMAIN PoolTexts[j][2].value
                                = {"LunchPrep", "LunchAssembly"} \cup sections}}

\* every outcome of generate_meals_with_gemini(dietary_prefs,
\* st.session_state.dinner_settings, len(selected_days)) in a script run: whether it
\* raised, what it returned and the dinner sections it asked for
session_calls(settings, days) ==
    UNION {{[raised |-> o.raised, value |-> o.value, requested |-> requested_in(o.posted)] :
              o \in generate_meals_with_gemini(has_key, DEFAULT_PREFS, settings,
                                               Len(days), http)} :
            has_key \in BOOLEAN, http \in SessionHttps(settings)}

\* for day in selected_days: ... st.session_state.meal_plan['Dinners'][day] =
\* get_random_meal(meal_pool): every Dinners dict the loop can build
RECURSIVE draw_dinners(_, _, _)
draw_dinners(pools, settings, days) ==
    IF days = <<>> THEN {<<>>}
    ELSE LET day == Head(days)
             day_settings == get(settings, day, [plan |-> FALSE])
             rest == draw_dinners(pools, settings, Tail(days))
         IN  IF day_settings.plan
             THEN {<<<<day, o.value>>>> \o r :
                     o \in get_random_meal(pools, meal_pool_of(day_settings), NoExisting),
                     r \in rest}
             ELSE rest

\* the meal_plan a successful generation assigns, before its dinners are drawn
new_meal_plan(meals, dinners) ==
    [LunchPrep |-> get(meals, "LunchPrep", None),
     Lunches |-> get(meals, "LunchAssembly", <<>>),
     Dinners |-> dinners]

\* s.split(sep) for a one-character sep
RECURSIVE split(_, _)
split(s, sep) ==
    IF \E i \in DOMAIN s : s[i] = sep
    THEN LET i == CHOOSE i \in DOMAIN s : s[i] = sep /\ \A j \in 1..(i - 1) : s[j] # sep
         IN  <<SubSeq(s, 1, i - 1)>> \o split(SubSeq(s, i + 1, Len(s)), sep)
    ELSE <<s>>

\* [item.strip() for item in pantry_text.split('\n') if item.strip()]
pantry_items_of(pantry_text) ==
    LET items == SelectSeq(split(pantry_text, "\n"), LAMBDA item : strip(item) # <<>>)
    IN  [i \in DOMAIN items |-> strip(items[i])]

\* mutant: the pantry is replaced and the stored list is kept
update_pantry_list_stale(pantry_text, list) == <<pantry_items_of(pantry_text), list>>

\* the handler of "Update Pantry List": the new pantry_items and shopping_list
update_pantry_list(pantry_text, list) == <<pantry_items_of(pantry_text), <<>>>>

\* dinners.get(day) on the Dinners dict
dinner_of(dinners, day) == dict_get(dinners, day, None)

\* the session after the first script run: every default day is selected and has
\* its default setting
InitSession ==
    /\ pc = "session"
    /\ selected_days = days_of_week
    /\ dinner_settings = settings_for(EmptyDict, days_of_week)
    /\ meal_plan = EmptyDict
    /\ pantry_items = DEFAULT_PANTRY
    /\ shopping_list = <<>>
    /\ generated_meals = None
    /\ requested = {}
    /\ last = NoCall
    /\ sel = None
    /\ req = None

\* the radio "Plan for {day}?" is switched
SelectDay ==
    /\ \E day \in Range(days_of_week) :
          LET chosen == IF day \in Range(selected_days)
                        THEN Range(selected_days) \ {day}
                        ELSE Range(selected_days) \cup {day}
          IN  /\ selected_days' = selected_days_of(chosen)
              /\ dinner_settings' = settings_for(dinner_settings, selected_days')
              /\ last' = NoCall
    /\ UNCHANGED <<pc, meal_plan, pantry_items, shopping_list, generated_meals, sel, req,
                   requested>>

\* the checkbox "Plan dinner?" of a selected day is switched
PlanDinner ==
    /\ \E day \in Range(selected_days) :
          /\ dinner_settings' =
                [dinner_settings EXCEPT ![day].plan = ~dinner_settings[day].plan]
          /\ last' = NoCall
    /\ UNCHANGED <<pc, meal_plan, pantry_items, shopping_list, generated_meals, sel, req,
                   selected_days, requested>>

\* the radio "Style:" of a selected day with a planned dinner is switched
Style ==
    /\ \E day \in Range(selected_days) :
          /\ dinner_settings[day].plan
          /\ dinner_settings' =
                [dinner_settings EXCEPT
                    ![day].style = IF @ = QUICK_COOK THEN FULL_COOK ELSE QUICK_COOK]
          /\ last' = NoCall
    /\ UNCHANGED <<pc, meal_plan, pantry_items, shopping_list, generated_meals, sel, req,
                   selected_days, requested>>

\* the button "Generate Full Meal Plan"
GenerateFullMealPlan ==
    /\ IF selected_days = <<>>
       THEN /\ last' = Run("Generate Full Meal Plan", "", "", "warning")
            /\ UNCHANGED <<generated_meals, requested, meal_plan, shopping_list>>
       ELSE \E o \in session_calls(dinner_settings, selected_days) :
              IF o.raised
              THEN /\ last' = Run("Generate Full Meal Plan", "", "raised", "raised")
                   /\ UNCHANGED <<generated_meals, requested, meal_plan, shopping_list>>
              ELSE /\ generated_meals' = o.value
                   /\ requested' = IF truthy(o.value) THEN o.requested ELSE {}
                   /\ IF truthy(o.value)
                      THEN \E dinners \in draw_dinners(o.value, dinner_settings,
                                                       selected_days) :
                              /\ meal_plan' = new_meal_plan(o.value, dinners)
                              /\ shopping_list' = <<>>
                              /\ last' = Run("Generate Full Meal Plan", "", "meals",
                                             "done")
                      ELSE /\ last' = Run("Generate Full Meal Plan", "", "none",
                                          "error")
                           /\ UNCHANGED <<meal_plan, shopping_list>>
    /\ UNCHANGED <<pc, pantry_items, sel, req, selected_days, dinner_settings>>

\* the button "Regenerate Entire Lunch Plan", shown when the plan has a lunch prep;
\* update() on generated_meals = None raises AttributeError before anything is set
RegenerateEntireLunchPlan ==
    /\ truthy(meal_plan)
    /\ truthy(get(meal_plan, "LunchPrep", None))
    /\ \E new_meals \in session_calls(dinner_settings, selected_days) :
          IF new_meals.raised \/ ~truthy(new_meals.value) \/ generated_meals = None
          THEN /\ last' = Run("Regenerate Entire Lunch Plan", "", call_of(new_meals),
                              IF new_meals.raised \/ truthy(new_meals.value)
                              THEN "raised" ELSE "error")
               /\ UNCHANGED <<generated_meals, meal_plan, shopping_list>>
          ELSE /\ generated_meals' =
                    update(generated_meals,
                           [LunchPrep |-> get(new_meals.value, "LunchPrep", None),
                            LunchAssembly |-> get(new_meals.value, "LunchAssembly", None)])
               /\ meal_plan' =
                    update(meal_plan,
                           [LunchPrep |-> get(new_meals.value, "LunchPrep", None),
                            Lunches |-> get(new_meals.value, "LunchAssembly", <<>>)])
               /\ shopping_list' = <<>>
               /\ last' = Run("Regenerate Entire Lunch Plan", "", "meals", "done")
    /\ UNCHANGED <<pc, pantry_items, sel, req, selected_days, dinner_settings, requested>>

\* the button "Regenerate Dinner" of a selected day that has a dinner
RegenerateDinner ==
    /\ truthy(meal_plan)
    /\ \E day \in Range(selected_days) :
          LET dinner == dinner_of(get(meal_plan, "Dinners", <<>>), day)
              day_settings == dinner_settings[day]
              meal_pool == meal_pool_of(day_settings)
          IN  /\ dinner # None
              /\ \E o \in get_random_meal(generated_meals, meal_pool, ExistingMeal(dinner)) :
                    IF o.raised
                    THEN /\ last' = Run("Regenerate Dinner", day, "", "raised")
                         /\ UNCHANGED <<meal_plan, shopping_list>>
                    ELSE /\ meal_plan' =
                              [meal_plan EXCEPT !.Dinners = dict_set(@, day, o.value)]
                         /\ shopping_list' = <<>>
                         /\ last' = Run("Regenerate Dinner", day, "", "done")
    /\ UNCHANGED <<pc, pantry_items, generated_meals, sel, req, selected_days,
                   dinner_settings, requested>>

\* the button "Update Pantry List", with the text the user left in the text area
UpdatePantryList ==
    /\ truthy(meal_plan)
    /\ \E pantry_text \in PantryTexts :
          /\ pantry_items' = update_pantry_list(pantry_text, shopping_list)[1]
          /\ shopping_list' = update_pantry_list(pantry_text, shopping_list)[2]
    /\ last' = NoCall
    /\ UNCHANGED <<pc, meal_plan, generated_meals, sel, req, selected_days,
                   dinner_settings, requested>>

\* the button "Generate Shopping List"
ShoppingListButton ==
    /\ truthy(meal_plan)
    /\ shopping_list' = generate_shopping_list(meal_plan, pantry_items)
    /\ last' = NoCall
    /\ UNCHANGED <<pc, meal_plan, pantry_items, generated_meals, sel, req, selected_days,
                   dinner_settings, requested>>

NextSession ==
    \/ SelectDay
    \/ PlanDinner
    \/ Style
    \/ GenerateFullMealPlan
    \/ RegenerateEntireLunchPlan
    \/ RegenerateDinner
    \/ UpdatePantryList
    \/ ShoppingListButton

SpecSession == InitSession /\ [][NextSession]_vars

\* ------------------------------------------- reading a shopping list back

\* the least index at which pat occurs in s, 0 when it does not
Find(s, pat) ==
    LET hits == {i \in 1..(Len(s) - Len(pat) + 1) : SubSeq(s, i, i + Len(pat) - 1) = pat}
    IN  IF hits = {} THEN 0 ELSE CHOOSE i \in hits : \A j \in hits : i <= j

\* the newline-terminated lines of a text, without their newline
RECURSIVE SplitLines(_)
SplitLines(t) ==
    LET i == Find(t, <<"\n">>)
    IN  IF i = 0 THEN <<>>
        ELSE <<SubSeq(t, 1, i - 1)>> \o SplitLines(SubSeq(t, i + 1, Len(t)))

IsDigit(c) == ord[c] \in 48..57

RECURSIVE ToNat(_)
ToNat(ds) ==
    IF ds = <<>> THEN 0 ELSE 10 * ToNat(SubSeq(ds, 1, Len(ds) - 1)) + (ord[ds[Len(ds)]] - 48)

\* a line "- <name>: <quantity> <unit>" taken apart
ParseLine(l) ==
    LET colon == Find(l, <<":", " ">>)
        rest == SubSeq(l, colon + 2, Len(l))
        sp == Find(rest, <<" ">>)
        digits == SubSeq(rest, 1, sp - 1)
    IN  IF /\ Len(l) >= 2 /\ SubSeq(l, 1, 2) = <<"-", " ">>
           /\ colon > 2 /\ sp > 1
           /\ \A i \in DOMAIN digits : IsDigit(digits[i])
        THEN [ok |-> TRUE, name |-> SubSeq(l, 3, colon - 1), quantity |-> ToNat(digits),
              unit |-> SubSeq(rest, sp + 1, Len(rest))]
        ELSE [ok |-> FALSE, name |-> <<>>, quantity |-> 0, unit |-> <<>>]

ParsedLines(t) == LET ls == SplitLines(t) IN [i \in DOMAIN ls |-> ParseLine(ls[i])]

\* ------------------------------------ what the aggregation is meant to be

RECURSIVE Flatten(_)
Flatten(ss) == IF ss = <<>> THEN <<>> ELSE Head(ss) \o Flatten(Tail(ss))

PrepIngredients(plan) ==
    IF "LunchPrep" \in DOMAIN plan /\ "ingredients" \in DOMAIN plan.LunchPrep
    THEN plan.LunchPrep.ingredients ELSE <<>>

LunchIngredients(plan) ==
    IF "Lunches" \in DOMAIN plan
    THEN Flatten([i \in DOMAIN plan.Lunches |-> plan.Lunches[i].ingredients])
    ELSE <<>>

DinnerIngredients(plan) ==
    LET ds == dinners_of(plan)
    IN  Flatten([i \in DOMAIN ds |-> IF ds[i][2] = None THEN <<>> ELSE ds[i][2].ingredients])

\* every ingredient of every meal reachable from the plan: the lunches, the
\* consolidated lunch-prep list and the present dinners
ReachableIngredients(plan) ==
    PrepIngredients(plan) \o LunchIngredients(plan) \o DinnerIngredients(plan)

Normalized(name) == lower(strip(name))

InPantry(name, items) ==
    \E i \in DOMAIN items : Normalized(items[i]) = Normalized(name)

RECURSIVE SumQty(_, _, _)
SumQty(ings, key, items) ==
    IF ings = <<>> THEN 0
    ELSE (IF /\ Normalized(Head(ings).item) = key[1]
             /\ Head(ings).unit = key[2]
             /\ ~InPantry(Head(ings).item, items)
          THEN Head(ings).quantity ELSE 0) + SumQty(Tail(ings), key, items)

KeysOf(ings, items) ==
    {<<Normalized(ings[i].item), ings[i].unit>> :
        i \in {j \in DOMAIN ings : ~InPantry(ings[j].item, items)}}

\* the line of a key whose aggregated quantity is q
LineFor(l, key, q) ==
    /\ l.ok
    /\ l.name = title(key[1])
    /\ l.quantity = q
    /\ l.unit \in {key[2], key[2] \o <<"s">>}

\* the output holds exactly one line per key of ings, with the key's summed quantity
SumsPerKey(text, ings, items) ==
    LET ls == ParsedLines(text)
        keys == KeysOf(ings, items)
    IN  /\ Len(ls) = Cardinality(keys)
        /\ \A k \in keys : \E i \in DOMAIN ls : LineFor(ls[i], k, SumQty(ings, k, items))

\* C1: the quantity printed for a key (trimmed lower-cased name, unit) is the sum of
\* the quantities of all non-pantry ingredients with that name and unit across every
\* meal reachable from the plan (lunches, lunch-prep list, present dinners), and
\* ingredients whose units differ are never merged.
C1_SumsEveryReachableMeal ==
    pc = "done" =>
        SumsPerKey(shopping_list, ReachableIngredients(meal_plan), pantry_items)

\* What the code does sum: the lunch-prep list and the present dinners only.
ShoppingSumsPrepAndDinners ==
    pc = "done" =>
        SumsPerKey(shopping_list,
                   PrepIngredients(meal_plan) \o DinnerIngredients(meal_plan), pantry_items)

\* C2: the output holds no line for an ingredient whose trimmed, lower-cased name is
\* the trimmed, lower-cased form of a pantry entry, whatever its unit and whatever
\* the letter case of either side.
C2_PantryExcluded ==
    pc = "done" =>
        LET ings == ReachableIngredients(meal_plan)
            ls == ParsedLines(shopping_list)
        IN  \A i \in DOMAIN ings :
                InPantry(ings[i].item, pantry_items) =>
                    ~\E j \in DOMAIN ls : ls[j].name = title(Normalized(ings[i].item))

\* C2 witness: a prep or dinner ingredient matches a pantry entry only after trimming
\* and lower-casing, and the list still has a line for something else.
C2_Witness ==
    /\ pc = "done"
    /\ shopping_list # SENTINEL
    /\ LET ings == PrepIngredients(meal_plan) \o DinnerIngredients(meal_plan)
       IN  \E i \in DOMAIN ings, j \in DOMAIN pantry_items :
              /\ Normalized(ings[i].item) = Normalized(pantry_items[j])
              /\ ings[i].item # pantry_items[j]
              /\ lower(ings[i].item) # lower(pantry_items[j])
              /\ strip(ings[i].item) # strip(pantry_items[j])

\* the units the plan gives to the ingredients printed under a name
UnitsOf(plan, name) ==
    LET ings == ReachableIngredients(plan)
    IN  {ings[i].unit : i \in {j \in DOMAIN ings : title(Normalized(ings[j].item)) = name}}

\* the printed unit is u with an "s" appended exactly when the printed quantity is
\* above 1 and u is longer than one character
PluralRule(l, u) ==
    IF l.quantity > 1 /\ Len(u) > 1 THEN l.unit = u \o <<"s">> ELSE l.unit = u

\* C3: in every line the unit carries a trailing "s" iff the aggregated quantity of
\* the line is above 1 and the unit is longer than one character; the test reads the
\* aggregated total, not the single quantities.
C3_Pluralization ==
    pc = "done" =>
        LET ls == ParsedLines(shopping_list)
        IN  \A i \in DOMAIN ls :
                /\ ls[i].ok
                /\ \E u \in UnitsOf(meal_plan, ls[i].name) : PluralRule(ls[i], u)

\* C3 witness: every reachable ingredient has quantity 1 and two of them add up to
\* a printed line of quantity 2 whose unit is pluralized.
C3_Witness ==
    /\ pc = "done"
    /\ \A i \in DOMAIN ReachableIngredients(meal_plan) :
          ReachableIngredients(meal_plan)[i].quantity = 1
    /\ LET ls == ParsedLines(shopping_list)
       IN  \E i \in DOMAIN ls :
              /\ ls[i].quantity = 2
              /\ ls[i].unit = <<"c", "a", "n", "s">>

\* C4: the sentinel is returned iff no (name, unit) key remains after pantry
\* filtering; a plan with an ingredient outside the pantry yields lines, never the
\* sentinel.
C4_SentinelIffNothingRemains ==
    pc = "done" =>
        (shopping_list = SENTINEL
            <=> KeysOf(ReachableIngredients(meal_plan), pantry_items) = {})

\* What the code does: the sentinel iff no prep or dinner ingredient remains.
SentinelIffNoPrepOrDinnerKey ==
    pc = "done" =>
        (shopping_list = SENTINEL
            <=> KeysOf(PrepIngredients(meal_plan) \o DinnerIngredients(meal_plan),
                       pantry_items) = {})

\* the orders in which a list can be visited
PermSeqs(s) == {[i \in DOMAIN s |-> s[f[i]]] : f \in Permutations(DOMAIN s)}

MealPerms(meal) ==
    IF meal = None THEN {None}
    ELSE {[meal EXCEPT !.ingredients = x] : x \in PermSeqs(meal.ingredients)}

\* the sequences that take their i-th element from the i-th set
RECURSIVE SeqProduct(_)
SeqProduct(sets) ==
    IF sets = <<>> THEN {<<>>}
    ELSE {<<h>> \o t : h \in Head(sets), t \in SeqProduct(Tail(sets))}

DinnersPerms(ds) ==
    UNION {SeqProduct([i \in DOMAIN d |-> {<<d[i][1], m>> : m \in MealPerms(d[i][2])}]) :
            d \in PermSeqs(ds)}

LunchesPerms(ls) ==
    UNION {SeqProduct([i \in DOMAIN l |-> MealPerms(l[i])]) : l \in PermSeqs(ls)}

PrepPerms(plan) ==
    IF "LunchPrep" \in DOMAIN plan /\ "ingredients" \in DOMAIN plan.LunchPrep
    THEN {[plan EXCEPT !.LunchPrep.ingredients = x] :
            x \in PermSeqs(plan.LunchPrep.ingredients)}
    ELSE {plan}

\* the plan with its meals, and the ingredients inside them, in every order
PlanPerms(plan) ==
    {[p EXCEPT !.Dinners = d, !.Lunches = l] :
        p \in PrepPerms(plan), d \in DinnersPerms(plan.Dinners),
        l \in LunchesPerms(plan.Lunches)}

KeyLt(a, b) == IF a[1] # b[1] THEN str_lt(a[1], b[1]) ELSE str_lt(a[2], b[2])

\* the keys of a mapping, ascending by name and then by unit
Ascending(keys) ==
    CHOOSE ks \in [1..Cardinality(keys) -> keys] :
        \A i, j \in DOMAIN ks : i < j => KeyLt(ks[i], ks[j])

TestPlaceholder == "No meals found for this style."

IsPools(pools) == pools # Missing /\ pools # None /\ pools # EmptyDict

\* the meals a call is told to avoid
Avoided(existing_meals) ==
    CASE existing_meals.kind = "None" -> {}
      [] existing_meals.kind = "list" -> Range(existing_meals.meals)
      [] OTHER -> {existing_meals.meal}

AvoidedNames(existing_meals) == {m.name : m \in Avoided(existing_meals)}

\* the call returns an entry of the pool, and one whose name is not avoided unless
\* every name of the pool is
AvoidsWherePossible(pool, existing_meals, outcome) ==
    /\ ~outcome.raised
    /\ outcome.value \in Range(pool)
    /\ (\E m \in Range(pool) : m.name \notin AvoidedNames(existing_meals))
          => outcome.value.name \notin AvoidedNames(existing_meals)

SelectorCase ==
    /\ pc = "done"
    /\ IsPools(generated_meals)
    /\ meal_list_of(generated_meals, sel.meal_type) # <<>>

\* C6: for every non-empty pool and every excluded meal x, the selector returns an
\* entry of the pool whose name differs from x's, unless x's name is the only
\* distinct name in the pool, and then an entry of the full pool, for every outcome
\* of the random choice.
C6_SelectorAvoidsExcluded ==
    (SelectorCase /\ Avoided(sel.existing_meals) # {}) =>
        AvoidsWherePossible(meal_list_of(generated_meals, sel.meal_type),
                            sel.existing_meals, sel.outcome)

\* What the code does: the exclusion works when the meals to avoid come as a list.
SelectorAvoidsListed ==
    (SelectorCase /\ sel.existing_meals.kind # "dict") =>
        AvoidsWherePossible(meal_list_of(generated_meals, sel.meal_type),
                            sel.existing_meals, sel.outcome)

\* A meal passed by itself always ends in TypeError when the pool is not empty.
SelectorRaisesOnOneMeal ==
    (SelectorCase /\ sel.existing_meals.kind = "dict") =>
        sel.outcome = Raised("TypeError")

\* The call leaves the pools as they are.
SelectorKeepsPools == [][generated_meals' = generated_meals]_vars

\* C7: when the named pool is missing from the generated pools or is an empty list,
\* the selector never raises and returns the sentinel meal with empty ingredients and
\* instructions, whose name is the placeholder the test asserts and is not the name
\* of a real pool entry.
C7_EmptyPoolSentinel ==
    (/\ pc = "done"
     /\ IsPools(generated_meals)
     /\ meal_list_of(generated_meals, sel.meal_type) = <<>>) =>
        /\ sel.outcome = Returned(SentinelMeal(TestPlaceholder))
        /\ TestPlaceholder \notin MealNames

\* What the code does there: the sentinel is named "No meals for this style.".
EmptyPoolSentinelOfCode ==
    (/\ pc = "done"
     /\ IsPools(generated_meals)
     /\ meal_list_of(generated_meals, sel.meal_type) = <<>>) =>
        /\ sel.outcome = Returned(SentinelMeal("No meals for this style."))
        /\ sel.outcome.value.name \notin MealNames

\* ------------------------------------------- the request and its outcome

\* cue in text
Contains(text, cue) ==
    \E i \in 1..(Len(text) - Len(cue) + 1) : SubSeq(text, i, i + Len(cue) - 1) = cue

Posted == pc = "done" /\ req.outcome.posted # None

PostedSchema == req.outcome.posted.generationConfig.responseSchema

PostedText == req.outcome.posted.contents

SomePlanned(style) ==
    \E day \in DOMAIN req.dinner_settings :
        req.dinner_settings[day].plan /\ req.dinner_settings[day].style = style

\* C8: the top-level pools of the schema are LunchPrep and LunchAssembly, plus
\* QuickDinner iff some setting has plan = true and style Quick Cook, plus FullDinner
\* iff some setting has plan = true and style Full Cook; 'required' names the same
\* set with no duplicates.
C8_SchemaPools ==
    Posted =>
        LET pools == DOMAIN PostedSchema.properties
        IN  /\ pools = {"LunchPrep", "LunchAssembly"}
                        \cup (IF SomePlanned(QUICK_COOK) THEN {"QuickDinner"} ELSE {})
                        \cup (IF SomePlanned(FULL_COOK) THEN {"FullDinner"} ELSE {})
            /\ Range(PostedSchema.required) = pools
            /\ Len(PostedSchema.required) = Cardinality(pools)

\* C8 witness (scenario D): one day planned Quick Cook, one planned Full Cook and one
\* unplanned give the two lunch pools and both dinner pools.
C8_Witness ==
    /\ Posted
    /\ DOMAIN req.dinner_settings = Days
    /\ req.dinner_settings["Monday"] = [plan |-> TRUE, style |-> QUICK_COOK]
    /\ req.dinner_settings["Tuesday"] = [plan |-> TRUE, style |-> FULL_COOK]
    /\ ~req.dinner_settings["Wednesday"].plan
    /\ DOMAIN PostedSchema.properties =
          {"LunchPrep", "LunchAssembly", "QuickDinner", "FullDinner"}

\* C9: the instruction text holds the cue 'quick-cook' iff the schema holds the
\* QuickDinner pool, and the cue 'full cook' iff it holds the FullDinner pool.
C9_CuesMatchSchema ==
    Posted =>
        /\ Contains(PostedText, QUICK_CUE) <=> "QuickDinner" \in DOMAIN PostedSchema.properties
        /\ Contains(PostedText, FULL_CUE) <=> "FullDinner" \in DOMAIN PostedSchema.properties

\* C9 as amended: the text holds a cue iff the schema holds the cue's pool or the
\* dietary preferences, which are interpolated verbatim, hold the cue themselves.
C9_CuesMatchSchemaOrPrefs ==
    Posted =>
        /\ Contains(PostedText, QUICK_CUE)
              <=> ("QuickDinner" \in DOMAIN PostedSchema.properties
                      \/ Contains(req.dietary_prefs, QUICK_CUE))
        /\ Contains(PostedText, FULL_CUE)
              <=> ("FullDinner" \in DOMAIN PostedSchema.properties
                      \/ Contains(req.dietary_prefs, FULL_CUE))

\* C9 witness: one pool is requested and its cue is in the text, the other is not
\* and its cue is absent.
C9_Witness ==
    /\ Posted
    /\ DOMAIN PostedSchema.properties = {"LunchPrep", "LunchAssembly", "FullDinner"}
    /\ Contains(PostedText, FULL_CUE)
    /\ ~Contains(PostedText, QUICK_CUE)
    /\ \E day \in DOMAIN req.dinner_settings :
          ~req.dinner_settings[day].plan /\ req.dinner_settings[day].style = QUICK_COOK

HasKey(v, key) == v.t = "dict" /\ key \in DOMAIN v.d
HasFirst(v) == v.t = "list" /\ v.l # <<>>

\* the body has the shape candidates[0].content.parts[0].text, with a text
HasShape(body) ==
    /\ HasKey(body, "candidates") /\ HasFirst(body.d.candidates)
    /\ HasKey(body.d.candidates.l[1], "content")
    /\ HasKey(body.d.candidates.l[1].d.content, "parts")
    /\ HasFirst(body.d.candidates.l[1].d.content.d.parts)
    /\ HasKey(body.d.candidates.l[1].d.content.d.parts.l[1], "text")
    /\ body.d.candidates.l[1].d.content.d.parts.l[1].d.text.t = "str"

TextOf(body) == body.d.candidates.l[1].d.content.d.parts.l[1].d.text.s

\* the documents among the texts, and the object each stands for
Documents == {i \in DOMAIN JsonTexts : ~JsonTexts[i][2].raised}

WellFormed(body) == HasShape(body) /\ \E i \in Documents : JsonTexts[i][1] = TextOf(body)

ObjectOf(body) == JsonTexts[CHOOSE i \in Documents : JsonTexts[i][1] = TextOf(body)][2].value

Failed(message) ==
    /\ ~req.outcome.raised
    /\ req.outcome.value = None
    /\ req.outcome.errors = <<message>>

\* C10: every failure of a generation attempt ends in an error outcome, never in a
\* pool and never in an exception escaping the call: a missing credential fails
\* before a request is sent, a transport or non-2xx failure is a request failure, a
\* response without the expected shape or with unparseable text is a malformed
\* response; a well-formed response yields exactly the parsed pool object.
C10_FailuresAreErrorOutcomes ==
    pc = "done" =>
        LET http == req.http
            answered == req.has_key /\ http.post = "returns" /\ http.status \in 200..299
        IN  /\ ~req.has_key => (Failed(NO_KEY_MESSAGE) /\ req.outcome.posted = None)
            /\ (req.has_key /\ ~answered) => Failed(REQUEST_FAILED)
            /\ (answered /\ ~WellFormed(http.body)) => Failed(PARSE_FAILED)
            /\ (answered /\ WellFormed(http.body)) =>
                  /\ ~req.outcome.raised
                  /\ req.outcome.value = ObjectOf(http.body)
                  /\ req.outcome.errors = <<>>

\* What the code does: the same, but for a body that is no JSON, reported as either
\* kind of failure, and for a body or text of the wrong type on the way to the
\* text, where TypeError escapes.
GenerateOutcomesOfCode ==
    pc = "done" =>
        LET http == req.http
            answered == req.has_key /\ http.post = "returns" /\ http.status \in 200..299
        IN  /\ ~req.has_key => (Failed(NO_KEY_MESSAGE) /\ req.outcome.posted = None)
            /\ (req.has_key /\ ~answered) => Failed(REQUEST_FAILED)
            /\ (answered /\ ~WellFormed(http.body)) =>
                  \/ Failed(PARSE_FAILED)
                  \/ http.body = NotJson /\ Failed(REQUEST_FAILED)
                  \/ /\ req.outcome.raised
                     /\ req.outcome.exception = "TypeError"
                     /\ req.outcome.errors = <<>>
                     /\ http.body # NotJson
                     /\ ~HasShape(http.body)
            /\ (answered /\ WellFormed(http.body)) =>
                  /\ ~req.outcome.raised
                  /\ req.outcome.value = ObjectOf(http.body)
                  /\ req.outcome.errors = <<>>

\* ------------------------------------------------ properties of the session

GENERATE == "Generate Full Meal Plan"
REGENERATE_LUNCHES == "Regenerate Entire Lunch Plan"
REGENERATE_DINNER == "Regenerate Dinner"

\* the step is a script run of one of the two buttons that call the service, and the
\* call failed: it returned nothing or an exception left it
FailedGeneration ==
    /\ last'.widget \in {GENERATE, REGENERATE_LUNCHES}
    /\ last'.call \in {"none", "raised"}

\* C11: a "Generate Full Meal Plan" or "Regenerate Entire Lunch Plan" run whose
\* generation call fails leaves meal_plan, generated_meals and shopping_list exactly
\* as they were before it.
C11_FailedGenerationKeepsSession ==
    [][FailedGeneration => UNCHANGED <<meal_plan, generated_meals, shopping_list>>]_vars

\* what the code does on a failed call: meal_plan and shopping_list are kept; the
\* lunch button keeps the pools too, and so does the generate button when the
\* exception leaves the call, but a call that returns None empties the pools
FailedGenerationOfCode ==
    [][FailedGeneration =>
        /\ UNCHANGED <<meal_plan, shopping_list>>
        /\ IF last'.widget = GENERATE /\ last'.call = "none"
           THEN generated_meals' = None
           ELSE UNCHANGED generated_meals]_vars

\* after the pools were emptied, a dinner regeneration puts the placeholder
\* "Generate plan first!" in the slot
PlaceholderAfterFailedGeneration ==
    [][(last'.widget = REGENERATE_DINNER /\ generated_meals = None)
        => dinner_of(meal_plan'.Dinners, last'.day) = SentinelMeal("Generate plan first!")]_vars

\* a plan was generated, a later generation failed and the pools are gone
PoolsLostState ==
    /\ last.widget = GENERATE /\ last.call = "none"
    /\ truthy(meal_plan)
    /\ generated_meals = None

\* the pool the dinner regeneration of a day reads: the one of the day's style
PoolOf(day) == meal_list_of(generated_meals, meal_pool_of(dinner_settings[day]))

\* the step is a script run of the "Regenerate Dinner" button of a day
DinnerRegeneration == last'.widget = REGENERATE_DINNER

\* C12: regenerating a day's dinner never fails; when the day's pool has entries the
\* slot afterwards holds one of them, with another name than the old dinner whenever
\* the pool has a meal of another name, and the same entry when the pool holds
\* exactly that one.
C12_DinnerRegenerationRedraws ==
    [][DinnerRegeneration =>
        LET day == last'.day
            old == dinner_of(meal_plan.Dinners, day)
            new == dinner_of(meal_plan'.Dinners, day)
            pool == PoolOf(day)
        IN  /\ last'.result = "done"
            /\ pool # <<>> => new \in Range(pool)
            /\ (\E m \in Range(pool) : m.name # old.name) => new.name # old.name
            /\ pool = <<old>> => new = old]_vars

\* what the code does: with pools and a non-empty pool of the day's style the call
\* get_random_meal(meal_pool, dinner) raises TypeError and nothing is stored; with
\* no pools or an empty pool a placeholder is stored and the list is cleared
DinnerRegenerationOfCode ==
    [][DinnerRegeneration =>
        LET day == last'.day
            new == dinner_of(meal_plan'.Dinners, day)
            pool == PoolOf(day)
        IN  IF truthy(generated_meals) /\ pool # <<>>
            THEN last'.result = "raised" /\ UNCHANGED <<meal_plan, shopping_list>>
            ELSE /\ last'.result = "done"
                 /\ new = SentinelMeal(IF truthy(generated_meals)
                                       THEN "No meals for this style."
                                       ELSE "Generate plan first!")
                 /\ shopping_list' = <<>>]_vars

\* the step is a script run that changes the plan: a generation that succeeds, a
\* lunch regeneration that succeeds or a dinner regeneration that stores a dinner
PlanChange ==
    /\ last'.widget \in {GENERATE, REGENERATE_LUNCHES, REGENERATE_DINNER}
    /\ last'.result = "done"

\* C13: a stored shopping list that is not empty is the aggregation of the current
\* meal_plan and the current pantry_items; every run that changes the plan or
\* updates the pantry clears the list, and the list becomes non-empty only by the
\* "Generate Shopping List" button.
C13_ShoppingListIsCurrent ==
    /\ [](shopping_list # <<>>
            => shopping_list = generate_shopping_list(meal_plan, pantry_items))
    /\ [][(PlanChange \/ meal_plan' # meal_plan \/ pantry_items' # pantry_items)
            => shopping_list' = <<>>]_vars
    /\ [][(shopping_list' # <<>> /\ shopping_list' # shopping_list)
            => ShoppingListButton]_vars

\* C13 witness: a list with lines is stored for a plan with a dinner, after the
\* pantry was updated and the list was asked for again
C13_Witness ==
    /\ shopping_list # <<>>
    /\ shopping_list # SENTINEL
    /\ pantry_items # DEFAULT_PANTRY
    /\ truthy(meal_plan)
    /\ meal_plan.Dinners # <<>>
    /\ shopping_list = generate_shopping_list(meal_plan, pantry_items)
    /\ shopping_list # generate_shopping_list(meal_plan, DEFAULT_PANTRY)

\* the days that have an entry in the plan's Dinners dict
DinnerDays == IF truthy(meal_plan) THEN {meal_plan.Dinners[i][1] : i \in DOMAIN meal_plan.Dinners}
              ELSE {}

\* C14: the plan's Dinners dict has no entry for a day whose current dinner setting
\* has plan = false, nor for a day without a dinner setting.
C14_NoDinnerForUnplannedDay ==
    \A day \in DinnerDays : day \in DOMAIN dinner_settings /\ dinner_settings[day].plan

\* what the code keeps: every day with a dinner has a setting, and a generation that
\* succeeds stores a dinner for exactly the selected days planned at that moment
DinnersOfCode ==
    /\ [](\A day \in DinnerDays : day \in DOMAIN dinner_settings)
    /\ [][(last'.widget = GENERATE /\ last'.result = "done")
            => {meal_plan'.Dinners[i][1] : i \in DOMAIN meal_plan'.Dinners}
                = {day \in Range(selected_days) : dinner_settings[day].plan}]_vars

\* a dinner of an unplanned day is counted by the shopping list
UnplannedDinnerCounted ==
    /\ \E day \in DinnerDays : ~dinner_settings[day].plan
    /\ shopping_list # <<>>
    /\ shopping_list # generate_shopping_list([meal_plan EXCEPT !.Dinners = <<>>], pantry_items)

DinnerPools == {"QuickDinner", "FullDinner"}

\* the step is a script run that calls the generation service
GenerationCall ==
    /\ last'.widget \in {GENERATE, REGENERATE_LUNCHES}
    /\ last'.call # ""

\* the dinner pools in the schema of a request made with the current settings
RequestedPools == DOMAIN json_schema_properties_of(dinner_settings) \cap DinnerPools

\* the dinner pools that the planned dinners of the selected days draw from
NeededPools ==
    {meal_pool_of(dinner_settings[day]) :
        day \in {d \in Range(selected_days) : dinner_settings[d].plan}}

\* dinner settings exist only for selected days
SettingsOnlyForSelectedDays == [](DOMAIN dinner_settings \subseteq Range(selected_days))

\* a generation request asks for a dinner pool only if a selected day has a planned
\* dinner of that style
RequestsOnlyNeededPools == [][GenerationCall => RequestedPools \subseteq NeededPools]_vars

\* a dinner regeneration reads a pool that was asked for by the generation that made
\* the current pools
RegenerationReadsRequestedPool ==
    [][DinnerRegeneration => meal_pool_of(dinner_settings[last'.day]) \in requested]_vars

\* C15: dinner settings exist only for selected days; a generation request asks for
\* a dinner pool only if a selected day has a planned dinner of that style; and a
\* dinner regeneration reads a pool that was asked for by the generation that made
\* the current pools.
C15_RequestedPoolsAreConsumed ==
    /\ SettingsOnlyForSelectedDays
    /\ RequestsOnlyNeededPools
    /\ RegenerationReadsRequestedPool

\* what the code keeps: a request asks for the pools of the planned settings of
\* every day that was ever selected, so the dinners drawn by a generation that
\* succeeds read pools that it asked for
RequestedPoolsOfCode ==
    /\ [][GenerationCall =>
            RequestedPools = {meal_pool_of(dinner_settings[day]) :
                                day \in {d \in DOMAIN dinner_settings :
                                            dinner_settings[d].plan}}]_vars
    /\ [][(last'.widget = GENERATE /\ last'.result = "done")
            => NeededPools \subseteq requested']_vars

\* a dinner regeneration read a pool that the pools' generation never asked for
UnrequestedPoolRead ==
    /\ last.widget = REGENERATE_DINNER
    /\ truthy(generated_meals)
    /\ meal_pool_of(dinner_settings[last.day]) \notin requested
    /\ dinner_of(meal_plan.Dinners, last.day) = SentinelMeal("No meals for this style.")

\* the step is a script run of "Regenerate Entire Lunch Plan" whose generation call
\* returned meals
LunchRegeneration ==
    /\ last'.widget = REGENERATE_LUNCHES
    /\ last'.call = "meals"

\* the documents the service can answer
Responses == {PoolTexts[i][2].value : i \in DOMAIN PoolTexts}

\* the dinner pools of a generated_meals value
DinnerPoolsOf(meals) == [pool \in DinnerPools |-> get(meals, pool, None)]

\* meal_plan and generated_meals hold the lunch prep and the lunch assembly of one
\* response of the service
LunchesFrom(plan, meals) ==
    \E new_meals \in Responses :
        /\ get(plan, "LunchPrep", None) = new_meals.LunchPrep
        /\ get(plan, "Lunches", None) = new_meals.LunchAssembly
        /\ get(meals, "LunchPrep", None) = new_meals.LunchPrep
        /\ get(meals, "LunchAssembly", None) = new_meals.LunchAssembly

\* C16: a "Regenerate Entire Lunch Plan" run whose generation succeeds completes,
\* leaves the plan's Dinners and the QuickDinner and FullDinner pools as they were,
\* and replaces the lunch prep and lunch assembly of meal_plan and generated_meals
\* by those of the response.
C16_LunchRegenerationReplacesLunches ==
    [][LunchRegeneration =>
        /\ last'.result = "done"
        /\ meal_plan'.Dinners = meal_plan.Dinners
        /\ DinnerPoolsOf(generated_meals') = DinnerPoolsOf(generated_meals)
        /\ LunchesFrom(meal_plan', generated_meals')]_vars

\* what the code does: with pools it is as C16 says and the list is cleared; when
\* generated_meals is None, update() raises AttributeError and nothing is replaced
LunchRegenerationOfCode ==
    [][LunchRegeneration =>
        IF generated_meals # None
        THEN /\ last'.result = "done"
             /\ meal_plan'.Dinners = meal_plan.Dinners
             /\ DinnerPoolsOf(generated_meals') = DinnerPoolsOf(generated_meals)
             /\ LunchesFrom(meal_plan', generated_meals')
             /\ shopping_list' = <<>>
        ELSE /\ last'.result = "raised"
             /\ UNCHANGED <<meal_plan, generated_meals, shopping_list>>]_vars

\* a lunch regeneration replaced the lunches by other ones and kept dinner pools
\* that differ from those its request asked for
LunchesReplacedState ==
    /\ last.widget = REGENERATE_LUNCHES /\ last.result = "done"
    /\ DOMAIN generated_meals \cap DinnerPools # RequestedPools
    /\ meal_plan.Dinners # <<>>

====
